---- MODULE Spec2Model ----
(***************************************************************************)
(* HTMLText (pixijs-userland/html-text): a Sprite whose texture is the     *)
(* rasterization of styled HTML markup.  The model covers both revisions   *)
(* of the class in the repository, src/src/index.ts ("ts") and             *)
(* src/src/index.js ("js"): the dirty flag, the style change counter, the  *)
(* single asynchronous image decode, the canvas sizing and the texture     *)
(* geometry.                                                               *)
(*                                                                         *)
(* Numbers that are not integers in the code (resolution, measured boxes,  *)
(* texture sizes, scale) are exact rationals <<n, d>> in lowest terms.     *)
(* Strings are sequences of one-character strings.                         *)
(***************************************************************************)
EXTENDS Integers, Sequences, FiniteSets

\* ------------------------------------------------------------------ bounds

\* In-place style mutations are cut off when style.styleID reaches this.
MaxStyleID == 2
\* Text values of the sanitisation specification are built from at most this
\* many fragments.
MaxFrags == 2

\* -------------------------------------------------------------- rationals

RECURSIVE GCD(_, _)
GCD(a, b) == IF b = 0 THEN a ELSE GCD(b, a % b)

Abs(n) == IF n < 0 THEN -n ELSE n

\* n/d in lowest terms, d > 0.
Rat(n, d) ==
    LET g == GCD(Abs(n), Abs(d))
        s == IF d < 0 THEN -1 ELSE 1
    IN  <<(s * n) \div g, (s * d) \div g>>

Num(n) == <<n, 1>>
RAdd(p, q) == Rat(p[1] * q[2] + q[1] * p[2], p[2] * q[2])
RSub(p, q) == Rat(p[1] * q[2] - q[1] * p[2], p[2] * q[2])
RMul(p, q) == Rat(p[1] * q[1], p[2] * q[2])
\* q is not zero at any use.
RDiv(p, q) == Rat(p[1] * q[2], p[2] * q[1])
RLess(p, q) == p[1] * q[2] < q[1] * p[2]
RMax(p, q) == IF RLess(p, q) THEN q ELSE p
RAbs(p) == <<Abs(p[1]), p[2]>>
\* Math.ceil, as an integer.
Ceil(p) == -((-p[1]) \div p[2])

\* ------------------------------------------------------------------ text

\* The ASCII case folding of a regular expression's i flag.
Lower(c) ==
    CASE c = "B" -> "b"
      [] c = "R" -> "r"
      [] c = "H" -> "h"
      [] c = "N" -> "n"
      [] c = "S" -> "s"
      [] c = "P" -> "p"
      [] OTHER -> c

\* Whether pat (lower case) occurs in s at position i, case-insensitively.
MatchAt(s, i, pat) ==
    /\ i + Len(pat) - 1 <= Len(s)
    /\ \A k \in 1..Len(pat) : Lower(s[i + k - 1]) = pat[k]

\* String.prototype.replace with a global, case-insensitive pattern: the
\* matches are found left to right and do not overlap.
RECURSIVE ReplaceFrom(_, _, _, _)
ReplaceFrom(s, i, pat, rep) ==
    IF i > Len(s) THEN <<>>
    ELSE IF MatchAt(s, i, pat) THEN rep \o ReplaceFrom(s, i + Len(pat), pat, rep)
    ELSE <<s[i]>> \o ReplaceFrom(s, i + 1, pat, rep)

ReplaceAll(s, pat, rep) == ReplaceFrom(s, 1, pat, rep)

PatBr == <<"<", "b", "r", ">">>
RepBr == <<"<", "b", "r", "/", ">">>
PatHr == <<"<", "h", "r", ">">>
RepHr == <<"<", "h", "r", "/", ">">>
PatNbsp == <<"&", "n", "b", "s", "p", ";">>
RepNbsp == <<"&", "#", "1", "6", "0", ";">>

\* A faulty variant of sanitiseText, for sensitivity runs: the replacement of <hr> left out.
SanitiseNoHr(text) ==
    ReplaceAll(ReplaceAll(text, PatBr, RepBr), PatNbsp, RepNbsp)

\* sanitiseText: three replacements, one after the other.
sanitiseText(text) ==
    ReplaceAll(ReplaceAll(ReplaceAll(text, PatBr, RepBr), PatHr, RepHr),
               PatNbsp, RepNbsp)

\* A value assigned to text: a string, a number, null or undefined.
StrVal(s) == [kind |-> "string", chars |-> s, num |-> 0]
NumVal(n) == [kind |-> "number", chars |-> <<>>, num |-> n]
NullVal == [kind |-> "null", chars |-> <<>>, num |-> 0]
UndefVal == [kind |-> "undefined", chars |-> <<>>, num |-> 0]

Digit(n) == CASE n = 0 -> "0" [] n = 1 -> "1" [] n = 2 -> "2" [] n = 3 -> "3"
              [] n = 4 -> "4" [] n = 5 -> "5" [] n = 6 -> "6" [] n = 7 -> "7"
              [] n = 8 -> "8" [] OTHER -> "9"

RECURSIVE Digits(_)
Digits(n) == IF n < 10 THEN <<Digit(n)>> ELSE Append(Digits(n \div 10), Digit(n % 10))

\* String(v).
StringOf(v) ==
    CASE v.kind = "string" -> v.chars
      [] v.kind = "number" -> Digits(v.num)
      [] v.kind = "null" -> <<"n", "u", "l", "l">>
      [] OTHER -> <<"u", "n", "d", "e", "f", "i", "n", "e", "d">>

\* text === '' || text === null || text === undefined
IsBlank(v) ==
    \/ v.kind = "string" /\ v.chars = <<>>
    \/ v.kind = "null"
    \/ v.kind = "undefined"


\* String(text === '' || text === null || text === undefined ? ' ' : text)
CoerceText(v) == IF IsBlank(v) THEN <<" ">> ELSE StringOf(v)

\* What the text setter stores for v.
StoredText(v) == sanitiseText(CoerceText(v))

\* ----------------------------------------------------------- environment

\* The two revisions of the class.
Revisions == {"ts", "js"}

\* The values written to text.
TextInputs == {StrVal(<<>>), StrVal(<<"a", "<", "B", "R", ">", "b">>)}

\* settings.RESOLUTION, renderer.resolution and the values written to
\* resolution.
ResValues == {Num(1), Rat(3, 2)}

\* The values of style.padding.
PaddingValues == {0, 1}

\* What the program's environment writes in one run: the text, the padding
\* or the resolution takes both of its values, the other two keep one.  The
\* style's trim flag and its change counter vary in every run.
Worlds ==
    {[texts |-> TextInputs, paddings |-> {1}, resolutions |-> {Rat(3, 2)}],
     [texts |-> {StrVal(<<"a", "<", "B", "R", ">", "b">>)}, paddings |-> PaddingValues,
      resolutions |-> {Rat(3, 2)}],
     [texts |-> {StrVal(<<"a", "<", "B", "R", ">", "b">>)}, paddings |-> {1},
      resolutions |-> ResValues]}

\* TextStyle objects handed to the constructor or the style setter.
NewStyles(w) == [styleID : {0}, padding : w.paddings, trim : BOOLEAN]

\* Font metrics of the document: the advance of one character and the height
\* of a line, in CSS pixels.
CharWidth == Rat(3, 4)
LineHeight == Rat(5, 4)

\* dom.getBoundingClientRect() of the inline-block div holding the text with
\* the style's css (its padding included).
getBoundingClientRect(text, style) ==
    [width |-> RAdd(RMul(Num(Len(text)), CharWidth), Num(2 * style.padding)),
     height |-> RAdd(LineHeight, Num(2 * style.padding))]

\* What utils.trimCanvas may find: opaque pixels or none, and how many
\* transparent columns and rows it cuts off.
NoInk == [data |-> FALSE, cutW |-> 0, cutH |-> 0]
TrimOutcomes ==
    {NoInk, [data |-> TRUE, cutW |-> 0, cutH |-> 0], [data |-> TRUE, cutW |-> 1, cutH |-> 1]}

\* utils.trimCanvas(canvas): the bounding box of the opaque pixels, and no
\* data when the canvas holds none.
trimCanvas(cv, bm, tr) ==
    IF bm.drawn /\ tr.data
    THEN [width |-> IF cv.width - tr.cutW >= 1 THEN cv.width - tr.cutW ELSE cv.width,
          height |-> IF cv.height - tr.cutH >= 1 THEN cv.height - tr.cutH ELSE cv.height,
          data |-> TRUE]
    ELSE [width |-> cv.width, height |-> cv.height, data |-> FALSE]

\* ------------------------------------------------------------------ state

VARIABLES
    world,            \* the values the environment writes in this run
    rev,              \* which revision of the class runs
    destroyed,        \* destroy() has run: canvas, context, _style, _image are null
    threw,            \* a handler ended in an uncaught exception
    canvas,           \* the canvas element: [width, height]
    bitmap,           \* what the canvas holds: [drawn, job]
    _resolution,
    _autoResolution,
    _text,
    _style,           \* the TextStyle object: [styleID, padding, trim]
    _loading,
    localStyleID,
    dirty,
    pass,             \* the last measurement pass: what it read and measured
    image,            \* the Image element: [pending, onload, failed, src]
    texture,          \* the texture's rectangles
    scale,            \* the sprite's scale: [x, y]
    _width,           \* the sprite's requested width, 0 when none was written
    _height,
    call              \* the last call or event and what it did

vars == <<world, rev, destroyed, threw, canvas, bitmap, _resolution, _autoResolution,
          _text, _style, _loading, localStyleID, dirty, pass, image, texture,
          scale, _width, _height, call>>

\* The content a decode is started from: the text and the css of the
\* serialized svg, and the resolution the completion callback closes over.
NoJob == [text |-> <<>>, padding |-> 0, resolution |-> Num(1)]

Blank == [drawn |-> FALSE, job |-> NoJob]

NoCall == [op |-> "new", passes |-> 0, starts |-> 0, textures |-> 0,
           arg |-> NullVal, res |-> Num(0), val |-> Num(0), ret |-> Num(0)]

Called(name) == [NoCall EXCEPT !.op = name]

\* The instance as one record, for the methods that call each other.
Self ==
    [destroyed |-> destroyed, threw |-> threw, canvas |-> canvas, bitmap |-> bitmap,
     _resolution |-> _resolution, _autoResolution |-> _autoResolution,
     _text |-> _text, _style |-> _style, _loading |-> _loading,
     localStyleID |-> localStyleID, dirty |-> dirty, pass |-> pass,
     image |-> image, texture |-> texture, scale |-> scale,
     _width |-> _width, _height |-> _height, call |-> call]

Becomes(s) ==
    /\ destroyed' = s.destroyed
    /\ threw' = s.threw
    /\ canvas' = s.canvas
    /\ bitmap' = s.bitmap
    /\ _resolution' = s._resolution
    /\ _autoResolution' = s._autoResolution
    /\ _text' = s._text
    /\ _style' = s._style
    /\ _loading' = s._loading
    /\ localStyleID' = s.localStyleID
    /\ dirty' = s.dirty
    /\ pass' = s.pass
    /\ image' = s.image
    /\ texture' = s.texture
    /\ scale' = s.scale
    /\ _width' = s._width
    /\ _height' = s._height
    /\ call' = s.call
    /\ UNCHANGED <<world, rev>>

\* The state after the constructor: a 3x3 canvas, empty orig and trim
\* rectangles, the text and the style assigned through their setters.
Init ==
    /\ world \in Worlds
    /\ rev \in Revisions
    /\ destroyed = FALSE
    /\ threw = FALSE
    /\ canvas = [width |-> 3, height |-> 3]
    /\ bitmap = Blank
    /\ _resolution \in world.resolutions
    /\ _autoResolution = TRUE
    /\ _text \in {StoredText(v) : v \in world.texts}
    /\ _style \in NewStyles(world)
    /\ _loading = FALSE
    /\ localStyleID = -1
    /\ dirty = TRUE
    /\ pass = [text |-> <<>>, padding |-> 0, resolution |-> Num(1),
               width |-> Num(0), height |-> Num(0)]
    /\ image = [pending |-> 0, onload |-> FALSE, failed |-> FALSE, src |-> NoJob]
    /\ texture = [frameW |-> RDiv(Num(3), _resolution), frameH |-> RDiv(Num(3), _resolution),
                  trimW |-> Num(0), trimH |-> Num(0), trimX |-> 0, trimY |-> 0,
                  origW |-> Num(0), origH |-> Num(0)]
    /\ scale = [x |-> Num(1), y |-> Num(1)]
    /\ _width = Num(0)
    /\ _height = Num(0)
    /\ call = NoCall

\* ---------------------------------------------------------------- methods

\* this.localStyleID !== style.styleID
StyleChanged(s) == s.localStyleID # s._style.styleID

\* A faulty variant of SkipsUpdate, for sensitivity runs: updateText without
\* its early return.
SkipsUpdateNever(s, respectDirty) == FALSE

\* !this.dirty && respectDirty
SkipsUpdate(s, respectDirty) == ~s.dirty /\ respectDirty

\* A faulty variant of MayStartDecode, for sensitivity runs: updateText without its `if (!this._loading)`.
StartsDecodeAlways(s) == TRUE

\* !this._loading
MayStartDecode(s) == ~s._loading

\* The measured box: rounded up to whole pixels in index.ts, as measured in
\* index.js.
MeasuredBox(s) ==
    LET box == getBoundingClientRect(s._text, s._style)
    IN  IF rev = "ts"
        THEN [width |-> Num(Ceil(box.width)), height |-> Num(Ceil(box.height))]
        ELSE box

\* A faulty variant of CanvasSize, for sensitivity runs: Math.floor for Math.ceil.
CanvasSizeFloor(measured, padding, resolution) ==
    LET q == RMul(RAdd(RMax(Num(1), measured), Num(padding * 2)), resolution)
    IN  q[1] \div q[2]

\* Math.ceil((Math.max(1, width) + (style.padding * 2)) * resolution)
CanvasSize(measured, padding, resolution) ==
    Ceil(RMul(RAdd(RMax(Num(1), measured), Num(padding * 2)), resolution))

\* A faulty variant of FrameSize, for sensitivity runs: index.js's rounding up, in index.ts too.
FrameSizeCeil(pixels, resolution) == Num(Ceil(RDiv(Num(pixels), resolution)))

\* canvas.width / resolution, rounded up in index.js.
FrameSize(pixels, resolution) ==
    IF rev = "ts"
    THEN RDiv(Num(pixels), resolution)
    ELSE Num(Ceil(RDiv(Num(pixels), resolution)))

\* utils.sign(n): 0 for 0, -1 below it, 1 above.
sign(p) == IF p[1] = 0 THEN 0 ELSE IF p[1] < 0 THEN -1 ELSE 1

\* this._onTextureUpdate(): the sprite rescales itself to the width and the
\* height written to it, if any, for the texture's new orig rectangle.
onTextureUpdate(s) ==
    LET sx == IF s._width # Num(0)
              THEN RDiv(RMul(Num(sign(s.scale.x)), s._width), s.texture.origW)
              ELSE s.scale.x
        sy == IF s._height # Num(0)
              THEN RDiv(RMul(Num(sign(s.scale.y)), s._height), s.texture.origH)
              ELSE s.scale.y
    IN  [s EXCEPT !.scale = [x |-> sx, y |-> sy]]

\* updateTexture(): trim the canvas if the style asks for it, set the
\* texture's rectangles from the canvas and clear the dirty flag.
updateTexture(s, tr) ==
    LET style == s._style
        t == trimCanvas(s.canvas, s.bitmap, tr)
        cv == IF style.trim /\ t.data
              THEN [width |-> t.width, height |-> t.height]
              ELSE s.canvas
        padding == IF style.trim THEN 0 ELSE style.padding
        fw == FrameSize(cv.width, s._resolution)
        fh == FrameSize(cv.height, s._resolution)
        s1 == [s EXCEPT !.canvas = cv,
                        !.texture = [frameW |-> fw, frameH |-> fh,
                                     trimW |-> fw, trimH |-> fh,
                                     trimX |-> -padding, trimY |-> -padding,
                                     origW |-> RSub(fw, Num(padding * 2)),
                                     origH |-> RSub(fh, Num(padding * 2))]]
    IN  [onTextureUpdate(s1) EXCEPT !.dirty = FALSE, !.call.textures = @ + 1]

\* A faulty variant of SkipsDecode, for sensitivity runs: index.js with its call of updateTexture moved
\* out of the if block, so that a dropped request updates the texture too.
SkipsDecodeUpdatesTexture(s) == IF rev = "js" THEN updateTexture(s, NoInk) ELSE s

\* if (!this._loading) { ... } has no else: a request that finds a decode
\* pending does nothing more.
SkipsDecode(s) == s

\* updateText(respectDirty): the style check, the early return, the
\* measurement, the canvas sizing and, when no decode is pending, the start of
\* one.  index.js then updates the texture at once, on the canvas it has just
\* cleared; index.ts leaves that to the completion callback.
updateText(s, respectDirty) ==
    LET s1 == IF StyleChanged(s)
              THEN [s EXCEPT !.dirty = TRUE, !.localStyleID = s._style.styleID]
              ELSE s
    IN  IF SkipsUpdate(s1, respectDirty) THEN s1
        ELSE
          LET box == MeasuredBox(s1)
              res == s1._resolution
              pad == s1._style.padding
              job == [text |-> s1._text, padding |-> pad, resolution |-> res]
              s2 == [s1 EXCEPT
                       !.canvas = [width |-> CanvasSize(box.width, pad, res),
                                   height |-> CanvasSize(box.height, pad, res)],
                       !.bitmap = Blank,
                       !.pass = [text |-> s1._text, padding |-> pad, resolution |-> res,
                                 width |-> box.width, height |-> box.height],
                       !.call.passes = @ + 1]
              s3 == [s2 EXCEPT
                       !._loading = TRUE,
                       !.image = [pending |-> @.pending + 1, onload |-> TRUE,
                                  failed |-> FALSE, src |-> job],
                       !.call.starts = @ + 1]
          IN  IF MayStartDecode(s2)
              THEN (IF rev = "js" THEN updateTexture(s3, NoInk) ELSE s3)
              ELSE SkipsDecode(s2)

\* image.onload: draw the decoded image, detach, clear _loading and update
\* the texture.  On a destroyed instance updateTexture reads style.trim of a
\* null style and throws.
onload(s, tr) ==
    LET s1 == [s EXCEPT !.bitmap = [drawn |-> TRUE, job |-> s.image.src],
                        !.image = [pending |-> @.pending - 1, onload |-> FALSE,
                                   failed |-> FALSE, src |-> NoJob],
                        !._loading = FALSE]
    IN  IF s.destroyed THEN [s1 EXCEPT !.threw = TRUE] ELSE updateTexture(s1, tr)

\* this._autoResolution && this._resolution !== renderer.resolution
AdoptsRenderer(s, rr) == s._autoResolution /\ s._resolution # rr

\* _render(renderer) and _renderCanvas(renderer), up to the call of super.
render(s, rr) ==
    LET s1 == IF AdoptsRenderer(s, rr)
              THEN [s EXCEPT !._resolution = rr, !.dirty = TRUE]
              ELSE s
    IN  updateText(s1, TRUE)

\* A faulty variant of SameText, for sensitivity runs: the setter without its early return.
NeverSame(s, text) == FALSE

\* this._text === text
SameText(s, text) == s._text = text

\* set text(text)
setText(s, v) ==
    LET text == sanitiseText(CoerceText(v))
    IN  IF SameText(s, text) THEN s
        ELSE [s EXCEPT !._text = text, !.dirty = TRUE]

\* this._resolution === value
SameResolution(s, value) == s._resolution = value

\* A faulty variant of setResolution, for sensitivity runs: the early return
\* taken before `_autoResolution = false`.
setResolutionReturnsFirst(s, value) ==
    IF SameResolution(s, value) THEN s
    ELSE [s EXCEPT !._autoResolution = FALSE, !._resolution = value, !.dirty = TRUE]

\* set resolution(value)
setResolution(s, value) ==
    LET s1 == [s EXCEPT !._autoResolution = FALSE]
    IN  IF SameResolution(s1, value) THEN s1
        ELSE [s1 EXCEPT !._resolution = value, !.dirty = TRUE]

\* A faulty variant of setStyle, for sensitivity runs: the setter without its `localStyleID = -1`.
setStyleKeepsID(s, style) == [s EXCEPT !._style = style, !.dirty = TRUE]

\* set style(style)
setStyle(s, style) ==
    [s EXCEPT !._style = style, !.localStyleID = -1, !.dirty = TRUE]

\* A faulty variant of widthOf, for sensitivity runs: index.js's getter, from the texture, in index.ts too.
widthOfTexture(s) == RMul(RAbs(s.scale.x), s.texture.origW)

\* get width(), after its call of updateText.
widthOf(s) ==
    IF rev = "ts"
    THEN RDiv(RMul(RAbs(s.scale.x), Num(s.canvas.width)), s._resolution)
    ELSE RMul(RAbs(s.scale.x), s.texture.origW)

\* get height(), after its call of updateText.
heightOf(s) ==
    IF rev = "ts"
    THEN RDiv(RMul(RAbs(s.scale.y), Num(s.canvas.height)), s._resolution)
    ELSE RMul(RAbs(s.scale.y), s.texture.origH)

\* (utils.sign(scale) || 1) * value / this.canvas.width / this.resolution in
\* index.ts, ... * value / this._texture.orig.width in index.js.
scaleFor(old, value, pixels, orig, resolution) ==
    LET k == IF sign(old) = 0 THEN 1 ELSE sign(old)
    IN  IF rev = "ts"
        THEN RDiv(RDiv(RMul(Num(k), value), Num(pixels)), resolution)
        ELSE RDiv(RMul(Num(k), value), orig)

\* set width(value)
setWidth(s, value) ==
    LET s1 == updateText(s, TRUE)
    IN  [s1 EXCEPT !.scale.x = scaleFor(s1.scale.x, value, s1.canvas.width,
                                        s1.texture.origW, s1._resolution),
                   !._width = value]

\* set height(value)
setHeight(s, value) ==
    LET s1 == updateText(s, TRUE)
    IN  [s1 EXCEPT !.scale.y = scaleFor(s1.scale.y, value, s1.canvas.height,
                                        s1.texture.origH, s1._resolution),
                   !._height = value]

\* A faulty variant of DetachedImage, for sensitivity runs: destroy() without its `onload = null`.
AttachedImage(img) == [img EXCEPT !.src = NoJob]

\* What destroy() leaves of the image: the callback detached and the source
\* emptied.  A load event already on its way may still arrive.
DetachedImage(img) == [img EXCEPT !.onload = FALSE, !.src = NoJob]

\* destroy(options)
destroy(s) ==
    [s EXCEPT !.destroyed = TRUE,
              !.canvas = [width |-> 0, height |-> 0],
              !.bitmap = Blank,
              !.image = DetachedImage(s.image)]

\* ---------------------------------------------------------------- actions

UpdateText(respectDirty) ==
    /\ ~destroyed
    /\ Becomes(updateText(
           [Self EXCEPT !.call = Called(IF respectDirty THEN "updateText(true)"
                                                        ELSE "updateText(false)")],
           respectDirty))

Render(rr) ==
    /\ ~destroyed
    /\ Becomes(render([Self EXCEPT !.call = [Called("_render") EXCEPT !.res = rr]], rr))

RenderCanvas(rr) ==
    /\ ~destroyed
    /\ Becomes(render([Self EXCEPT !.call = [Called("_renderCanvas") EXCEPT !.res = rr]],
                       rr))

\* getLocalBounds(rect) and _calculateBounds(), up to the calls of super.
Bounds ==
    /\ ~destroyed
    /\ Becomes(updateText([Self EXCEPT !.call = Called("bounds")], TRUE))

GetWidth ==
    /\ ~destroyed
    /\ LET s == updateText([Self EXCEPT !.call = Called("width")], TRUE)
       IN  Becomes([s EXCEPT !.call.ret = widthOf(s)])

GetHeight ==
    /\ ~destroyed
    /\ LET s == updateText([Self EXCEPT !.call = Called("height")], TRUE)
       IN  Becomes([s EXCEPT !.call.ret = heightOf(s)])

SetText(v) ==
    /\ ~destroyed
    /\ Becomes(setText([Self EXCEPT !.call = [Called("text") EXCEPT !.arg = v]], v))

SetResolution(value) ==
    /\ ~destroyed
    /\ Becomes(setResolution(
           [Self EXCEPT !.call = [Called("resolution") EXCEPT !.res = value]], value))

SetStyle(style) ==
    /\ ~destroyed
    /\ Becomes(setStyle([Self EXCEPT !.call = Called("style")], style))

\* A write to a property of the style object: TextStyle counts it in styleID
\* when the value changes.
MutateStyle ==
    /\ ~destroyed
    /\ _style.styleID < MaxStyleID
    /\ \E p \in world.paddings, t \in BOOLEAN :
         /\ <<p, t>> # <<_style.padding, _style.trim>>
         /\ (p = _style.padding \/ t = _style.trim)
         /\ _style' = [styleID |-> _style.styleID + 1, padding |-> p, trim |-> t]
    /\ call' = Called("mutate")
    /\ UNCHANGED <<world, rev, destroyed, threw, canvas, bitmap, _resolution, _autoResolution,
                   _text, _loading, localStyleID, dirty, pass, image, texture, scale,
                   _width, _height>>

\* _onStyleChange()
OnStyleChange ==
    /\ ~destroyed
    /\ Becomes([Self EXCEPT !.dirty = TRUE, !.call = Called("_onStyleChange")])

Destroy ==
    /\ ~destroyed
    /\ Becomes(destroy([Self EXCEPT !.call = Called("destroy")]))

\* The image's load event: the decode has succeeded.  It runs the callback
\* if one is attached, and no code of the instance otherwise.
ImageLoad ==
    /\ image.pending > 0
    /\ IF image.onload
       THEN \E tr \in TrimOutcomes :
              Becomes(onload([Self EXCEPT !.call = Called("onload")], tr))
       ELSE /\ image' = [image EXCEPT !.pending = @ - 1]
            /\ call' = Called("load")
            /\ UNCHANGED <<world, rev, destroyed, threw, canvas, bitmap, _resolution,
                           _autoResolution, _text, _style, _loading, localStyleID,
                           dirty, pass, texture, scale, _width, _height>>

\* The image's error event: the decode has failed.  No onerror is attached,
\* so no code of the instance runs.
ImageError ==
    /\ image.pending > 0
    /\ image' = [image EXCEPT !.pending = @ - 1, !.failed = TRUE]
    /\ call' = Called("error")
    /\ UNCHANGED <<world, rev, destroyed, threw, canvas, bitmap, _resolution,
                   _autoResolution, _text, _style, _loading, localStyleID,
                   dirty, pass, texture, scale, _width, _height>>

Next ==
    \/ \E rd \in BOOLEAN : UpdateText(rd)
    \/ \E rr \in world.resolutions : Render(rr)
    \/ \E rr \in world.resolutions : RenderCanvas(rr)
    \/ Bounds
    \/ GetWidth
    \/ GetHeight
    \/ \E v \in world.texts : SetText(v)
    \/ \E value \in world.resolutions : SetResolution(value)
    \/ \E style \in NewStyles(world) : SetStyle(style)
    \/ MutateStyle
    \/ OnStyleChange
    \/ Destroy
    \/ ImageLoad
    \/ ImageError

Spec == Init /\ [][Next]_vars

\* ----------------------------------------------------------------- properties

\* The content the instance holds now: what an svg built now would show.
Content == [text |-> _text, padding |-> _style.padding, resolution |-> _resolution]

\* The content the last measurement pass read.
PassContent == [text |-> pass.text, padding |-> pass.padding, resolution |-> pass.resolution]

\* The calls that run updateText(true), and all that run updateText.
RespectingCalls == {"updateText(true)", "_render", "_renderCanvas", "bounds", "width", "height"}
UpdateCalls == RespectingCalls \cup {"updateText(false)"}

\* Whether a decode's svg shows the text and the style a pass read.
SameSvg(job, read) == job.text = read.text /\ job.padding = read.padding

\* A request was dropped and not served: the last measurement pass read a
\* text or a style that differs from the one of the decode in flight or,
\* with no decode in flight, from the one of the bitmap drawn since that
\* pass (a pass clears the canvas).
DroppedRequest ==
    \/ _loading /\ ~image.failed /\ ~SameSvg(image.src, PassContent)
    \/ ~_loading /\ bitmap.drawn /\ ~SameSvg(bitmap.job, PassContent)

\* C1 (as the specification words it): in index.ts a request dropped because a decode was pending
\* is retried, the dirty flag staying set until a texture update for its
\* content completes: while a dropped request is not served, dirty is set.
C1_DroppedRequestStaysDirty ==
    (rev = "ts" /\ ~destroyed /\ DroppedRequest) => dirty

\* C2: at most one decode is in flight; a decode in flight has its callback
\* attached and _loading set; a decode is started only from _loading false
\* and sets _loading, which stays set while the callback is attached.
C2_AtMostOneDecode ==
    /\ [](/\ image.pending <= 1
          /\ image.onload => _loading
          /\ (image.pending = 1 /\ ~destroyed) => image.onload
          /\ (_loading /\ ~destroyed) => image.onload)
    /\ [][image'.pending > image.pending => (~_loading /\ _loading' /\ image'.onload)]_vars

\* C2's case: a request arrived while a decode was pending, ran its
\* measurement pass and started no decode.
C2_Witness ==
    /\ image.pending = 1
    /\ _loading
    /\ call.op = "_render"
    /\ call.passes = 1
    /\ call.starts = 0

\* C3: once destroyed, the callback is detached and nothing throws, and no
\* step (a decode completion included) changes a field of the instance.
C3_DestroyDetaches ==
    /\ [](destroyed => (~image.onload /\ ~threw))
    /\ [][destroyed =>
            UNCHANGED <<destroyed, threw, canvas, bitmap, _resolution, _autoResolution,
                        _text, _style, _loading, localStyleID, dirty, pass, texture,
                        scale, _width, _height>>]_vars

\* C3's case: destroy ran while a decode was pending, and the load event of
\* that decode has arrived since.
C3_Witness ==
    /\ destroyed
    /\ _loading
    /\ call.op = "load"
    /\ image.pending = 0
    /\ ~image.failed

\* The texture rectangles, the started decode and the callback are as they
\* were, and the call did not reach updateTexture or start a decode.
StuckAfterFailure ==
    /\ image'.failed
    /\ _loading'
    /\ image' = image
    /\ texture' = texture
    /\ call'.starts = 0
    /\ call'.textures = 0

\* C4 (as the specification words it): after a failed decode _loading stays true, no call starts
\* a decode or reaches updateTexture, and neither the texture geometry nor
\* the dirty flag is updated again.
C4_FailureFreezesDirty ==
    [][(image.failed /\ ~destroyed') => (StuckAfterFailure /\ dirty' = dirty)]_vars

\* C4 (amended): after a failed decode _loading stays true, no call starts a
\* decode or reaches updateTexture, the texture geometry is not updated
\* again and the dirty flag is not cleared again (a write may still set it).
C4_FailureDisablesUpdates ==
    /\ []((image.failed /\ ~destroyed) => (_loading /\ image.pending = 0))
    /\ [][(image.failed /\ ~destroyed') => (StuckAfterFailure /\ (dirty => dirty'))]_vars

\* C4's case: after the failure, a render tick on a dirty instance ran its
\* measurement pass and neither started a decode nor updated the texture.
C4_Witness ==
    /\ image.failed
    /\ ~destroyed
    /\ call.op = "_render"
    /\ call.passes = 1
    /\ call.starts = 0
    /\ call.textures = 0
    /\ dirty

\* The texture's frame and trim sizes are the canvas's pixel sizes divided by
\* the resolution.
TextureMatchesCanvas ==
    /\ texture.frameW = Rat(canvas.width * _resolution[2], _resolution[1])
    /\ texture.frameH = Rat(canvas.height * _resolution[2], _resolution[1])
    /\ texture.trimW = texture.frameW
    /\ texture.trimH = texture.frameH

\* C5 (as the specification words it): in every state a live instance of index.ts reaches by a
\* write, a call of updateText, a render tick or a decode completion, the
\* texture's frame and trim sizes are the canvas's divided by the resolution.
C5_TextureAlwaysMatches ==
    (rev = "ts" /\ ~destroyed /\ call.op # "new") => TextureMatchesCanvas

\* C5 (amended): in every reachable state of a live instance of index.ts
\* whose dirty flag is clear and which has no decode pending, the texture's
\* frame and trim sizes are the canvas's divided by the resolution.
C5_TextureMatchesWhenClean ==
    (rev = "ts" /\ ~destroyed /\ ~dirty /\ ~_loading) => TextureMatchesCanvas

\* C5's case: a rasterization has completed at resolution 3/2 and left a
\* texture width that is not a whole number.
C5_Witness ==
    /\ rev = "ts"
    /\ ~destroyed
    /\ ~dirty
    /\ ~_loading
    /\ _resolution = <<3, 2>>
    /\ texture.frameW[2] # 1

\* ceil((max(1, measured) + 2 * padding) * resolution), in integers.
ExpectedPixels(measured, padding, resolution) ==
    LET m == IF measured[1] < measured[2] THEN <<1, 1>> ELSE measured
        n == (m[1] + 2 * padding * m[2]) * resolution[1]
        d == m[2] * resolution[2]
    IN  IF n % d = 0 THEN n \div d ELSE (n \div d) + 1

\* The canvas has the sizes the formula gives for the measured box, the
\* padding and the resolution of the last measurement pass.
CanvasAsSized ==
    /\ canvas.width = ExpectedPixels(pass.width, pass.padding, pass.resolution)
    /\ canvas.height = ExpectedPixels(pass.height, pass.padding, pass.resolution)

\* C6 (as the specification words it): after every completed rasterization, for every style,
\* one with trim enabled included, the canvas's pixel sizes are
\* ceil((max(1, measured) + 2 * padding) * resolution).
C6_CanvasSizedAfterEveryCompletion ==
    (call.op = "onload" /\ ~destroyed) => CanvasAsSized

\* C6 (amended): after every completed rasterization under a style with trim
\* disabled, the canvas's pixel sizes are
\* ceil((max(1, measured) + 2 * padding) * resolution), with the measured
\* box, the padding and the resolution of the last measurement pass.
C6_CanvasSizedAfterUntrimmedCompletion ==
    (call.op = "onload" /\ ~destroyed /\ ~_style.trim) => CanvasAsSized

\* C6's case: a rasterization has completed with trim disabled, padding 1
\* and a resolution that makes the rounding up matter.
C6_Witness ==
    /\ call.op = "onload"
    /\ ~destroyed
    /\ ~_style.trim
    /\ pass.padding = 1
    /\ pass.resolution = <<3, 2>>
    /\ (canvas.width * 2) % 3 # 0

\* C7: after a style mutation (in place, or a new style object) localStyleID
\* differs from style.styleID; the next call of updateText runs its pass
\* (dirty was set; it stays set in index.ts until the decode completes) and
\* takes over the styleID; a further updateText(true) on a clean instance,
\* with no mutation in between, does not set dirty and runs no pass.
C7_StyleChangeForcesDirtyOnce ==
    /\ [](call.op \in {"mutate", "style"} => localStyleID # _style.styleID)
    /\ [][(call'.op \in UpdateCalls) =>
            /\ localStyleID' = _style'.styleID
            /\ (localStyleID # _style.styleID) =>
                 (call'.passes = 1 /\ (rev = "ts" => dirty'))
            /\ (/\ localStyleID = _style.styleID
                /\ ~dirty
                /\ call'.op \in {"updateText(true)", "bounds", "width", "height"}) =>
                 (~dirty' /\ call'.passes = 0)]_vars

\* C7's case: the style was mutated in place, an updateText took the new
\* styleID over, and the updateText(true) after it found nothing to do.
C7_Witness ==
    /\ _style.styleID >= 1
    /\ localStyleID = _style.styleID
    /\ call.op = "updateText(true)"
    /\ call.passes = 0
    /\ ~dirty

\* C9: a read of width or height on a dirty instance runs one measurement
\* pass, which sizes the canvas from the box it measures; in index.ts the
\* value returned is |scale| * canvas size / resolution for that canvas.
C9_ReadRunsOnePass ==
    [][(call'.op \in {"width", "height"} /\ dirty) =>
         /\ call'.passes = 1
         /\ pass'.text = _text /\ pass'.padding = _style.padding
         /\ pass'.resolution = _resolution
         /\ canvas'.width = ExpectedPixels(pass'.width, _style.padding, _resolution)
         /\ canvas'.height = ExpectedPixels(pass'.height, _style.padding, _resolution)
         /\ bitmap' = Blank
         /\ (rev = "ts" /\ call'.op = "width") =>
              call'.ret = Rat(Abs(scale.x[1]) * canvas'.width * _resolution[2],
                              scale.x[2] * _resolution[1])
         /\ (rev = "ts" /\ call'.op = "height") =>
              call'.ret = Rat(Abs(scale.y[1]) * canvas'.height * _resolution[2],
                              scale.y[2] * _resolution[1])]_vars

\* C9's case: width was read on a dirty instance of index.ts at resolution
\* 3/2: one pass ran and the value returned is not the texture's width.
C9_Witness ==
    /\ rev = "ts"
    /\ call.op = "width"
    /\ call.passes = 1
    /\ _resolution = <<3, 2>>
    /\ call.ret # texture.origW
    /\ call.ret = Rat(canvas.width * 2, 3)

\* C10: a write of text whose sanitised form is the stored text, and a write
\* of resolution equal to the current one, leave the dirty flag, the stored
\* text, the resolution, the canvas and the texture as they were; any other
\* write of text or resolution stores the value and sets dirty.
C10_SettersDirtyOnlyOnChange ==
    [][/\ (call'.op = "text" /\ StoredText(call'.arg) = _text) =>
            UNCHANGED <<dirty, _text, _resolution, canvas, bitmap, texture>>
       /\ (call'.op = "resolution" /\ call'.res = _resolution) =>
            UNCHANGED <<dirty, _text, _resolution, canvas, bitmap, texture>>
       /\ (call'.op = "text" /\ StoredText(call'.arg) # _text) =>
            (dirty' /\ _text' = StoredText(call'.arg))
       /\ (call'.op = "resolution" /\ call'.res # _resolution) =>
            (dirty' /\ _resolution' = call'.res)]_vars

\* C10's case: a text was written to an instance that was not dirty and that
\* already stored its sanitised form, and the instance is still not dirty.
C10_Witness ==
    /\ call.op = "text"
    /\ call.arg = StrVal(<<"a", "<", "B", "R", ">", "b">>)
    /\ _text = <<"a", "<", "b", "r", "/", ">", "b">>
    /\ ~dirty
    /\ ~destroyed

\* ------------------------------------------------- the text setter alone

\* Pieces of markup, whole patterns in both cases and parts of them.
Fragments ==
    {<<"<", "b", "r", ">">>, <<"<", "B", "r", ">">>, <<"<", "h", "r", ">">>,
     <<"<", "H", "R", ">">>, <<"&", "n", "b", "s", "p", ";">>,
     <<"&", "N", "b", "S", "p", ";">>, <<"<", "b", "r", "/", ">">>,
     <<"<">>, <<"<", "b">>, <<"r", ">">>, <<"<", "h">>, <<"&", "n", "b">>,
     <<"s", "p", ";">>, <<"&">>, <<"x">>}

RECURSIVE Flatten(_)
Flatten(fs) == IF fs = <<>> THEN <<>> ELSE Head(fs) \o Flatten(Tail(fs))

\* The values written to text in the specification of the setter alone:
\* strings of at most MaxFrags fragments, null, undefined and numbers.
SanitiseInputs ==
    {StrVal(Flatten(fs)) : fs \in UNION {[1..k -> Fragments] : k \in 0..MaxFrags}}
        \cup {NullVal, UndefVal, NumVal(0), NumVal(160)}

InitSanitise ==
    /\ Init
    /\ rev = "ts"
    /\ world = [texts |-> TextInputs, paddings |-> {1}, resolutions |-> {Rat(3, 2)}]
    /\ _style = [styleID |-> 0, padding |-> 1, trim |-> FALSE]

\* One write of text to the new instance.
NextSanitise == \E v \in SanitiseInputs : call.op = "new" /\ SetText(v)

SpecSanitise == InitSanitise /\ [][NextSanitise]_vars

\* The three patterns replaced in one scan from left to right.
RECURSIVE ReplacedFrom(_, _)
ReplacedFrom(s, i) ==
    IF i > Len(s) THEN <<>>
    ELSE IF MatchAt(s, i, PatBr) THEN RepBr \o ReplacedFrom(s, i + Len(PatBr))
    ELSE IF MatchAt(s, i, PatHr) THEN RepHr \o ReplacedFrom(s, i + Len(PatHr))
    ELSE IF MatchAt(s, i, PatNbsp) THEN RepNbsp \o ReplacedFrom(s, i + Len(PatNbsp))
    ELSE <<s[i]>> \o ReplacedFrom(s, i + 1)

Occurs(s, pat) == \E i \in 1..Len(s) : MatchAt(s, i, pat)

\* C8: after a write of v to text, the stored text is the string c with
\* every occurrence, in any case, of <br>, <hr> and &nbsp; replaced by <br/>,
\* <hr/> and &#160; and nothing else changed, where c is " " for "", null and
\* undefined and String(v) otherwise; no occurrence is left in it.
C8_StoredTextIsSanitised ==
    call.op = "text" =>
        LET v == call.arg
            c == IF v \in {StrVal(<<>>), NullVal, UndefVal} THEN <<" ">> ELSE StringOf(v)
        IN  /\ _text = ReplacedFrom(c, 1)
            /\ ~Occurs(_text, PatBr)
            /\ ~Occurs(_text, PatHr)
            /\ ~Occurs(_text, PatNbsp)

\* C8's case: a text with <hr> and &nbsp; in mixed case was written and is
\* stored with both replaced.
C8_Witness ==
    /\ call.op = "text"
    /\ call.arg = StrVal(<<"<", "H", "R", ">", "&", "N", "b", "S", "p", ";">>)
    /\ _text = <<"<", "h", "r", "/", ">", "&", "#", "1", "6", "0", ";">>

\* ------------------------------------------------------ the render ticks

\* The render ticks: _render and _renderCanvas.
Ticks == {"_render", "_renderCanvas"}

C12_AutoResolutionUntilWritten ==
    /\ [](call.op = "new" => _autoResolution)
    /\ [][/\ (_autoResolution' # _autoResolution) => call'.op = "resolution"
          /\ (call'.op = "resolution") => ~_autoResolution'
          /\ ~_autoResolution => ~_autoResolution'
          /\ (call'.op \in Ticks /\ _autoResolution /\ call'.res # _resolution) =>
               /\ _resolution' = call'.res
               /\ call'.passes = 1
               /\ rev = "ts" => dirty'
          /\ (call'.op \in Ticks /\ ~_autoResolution) =>
               _resolution' = _resolution]_vars

\* C12's case: after a write of resolution a render tick came from a
\* renderer of another resolution, and the resolution is still the written
\* one.
C12_Witness ==
    /\ call.op = "_renderCanvas"
    /\ ~_autoResolution
    /\ call.res # _resolution
    /\ call.res \in world.resolutions
    /\ ~destroyed

\* C13: in index.ts, whenever a decode has completed, the dirty flag is
\* clear, localStyleID is style.styleID and no decode is pending, the bitmap
\* on the canvas was decoded from an svg of the current text, style and
\* resolution.
C13_CleanMeansCurrentBitmap ==
    (/\ rev = "ts"
     /\ ~destroyed
     /\ bitmap.drawn
     /\ ~dirty
     /\ localStyleID = _style.styleID
     /\ ~_loading) => bitmap.job = Content

\* ------------------------------------------------ the size accessors

\* The sizes written to width and height, and the scales written to scale.
SizeValues == {Num(0), Num(3), Rat(5, 2)}
ScaleValues == {Num(-1), Num(0), Rat(1, 2)}

SetWidth(value) ==
    /\ ~destroyed
    /\ Becomes(setWidth([Self EXCEPT !.call = [Called("width=") EXCEPT !.val = value]],
                        value))

SetHeight(value) ==
    /\ ~destroyed
    /\ Becomes(setHeight([Self EXCEPT !.call = [Called("height=") EXCEPT !.val = value]],
                         value))

\* A write to the sprite's scale, which the setters read the sign of.
SetScale(value) ==
    /\ ~destroyed
    /\ Becomes([Self EXCEPT !.scale = [x |-> value, y |-> value],
                            !.call = [Called("scale") EXCEPT !.val = value]])

InitSize == Init

NextSize ==
    \/ \E value \in SizeValues : SetWidth(value)
    \/ \E value \in SizeValues : SetHeight(value)
    \/ \E value \in ScaleValues : SetScale(value)
    \/ GetWidth
    \/ GetHeight
    \/ ImageLoad

SpecSize == InitSize /\ [][NextSize]_vars

\* C14: in index.ts a read of width right after a write of it returns the
\* value written, and the same for height.
C14_SizeRoundTrips ==
    [][/\ (rev = "ts" /\ call.op = "width=" /\ call'.op = "width") =>
            call'.ret = call.val
       /\ (rev = "ts" /\ call.op = "height=" /\ call'.op = "height") =>
            call'.ret = call.val]_vars

====
